---- MODULE Spec2Model ----
(***************************************************************************)
(* Employee location tracker (src/server.js).                              *)
(*                                                                         *)
(* src/server.js holds two revisions of the server: revision 1 (lines      *)
(* 1-368) and revision 2 (lines 370-785).  The variable rev says which     *)
(* revision's /update-location and /stop-sharing handlers and which        *)
(* readEmployees / writeEmployees serve the requests; it is chosen in Init *)
(* and never changes.  Revision 1 has no /create-employee route (lines     *)
(* 255-257 removed it: its employees are pre-loaded); revision 2 has it    *)
(* (lines 652-682).                                                        *)
(*                                                                         *)
(* Text is a sequence of one-character strings, so that the CSV writer and *)
(* the CSV reader are modelled by what they do to commas, quotes and       *)
(* blanks.  Coordinates are fixed-point numbers in hundredths of a degree. *)
(* The clock counts units of 12 hours.                                     *)
(*                                                                         *)
(* passwordFile is the text of password.txt, sessions the loggedIn flag of *)
(* each browser session, comparing the logins of revision 2 that await     *)
(* bcrypt.compare, and attempts a history: for each session the bodies of  *)
(* the logins answered on it since it was last destroyed.                  *)
(***************************************************************************)
EXTENDS Integers, Sequences, FiniteSets, TLC

VARIABLES rev, disk, file, cityCache, now, pending, nreq, lookups, last,
          passwordFile, sessions, comparing, attempts

vars == <<rev, disk, file, cityCache, now, pending, nreq, lookups, last,
          passwordFile, sessions, comparing, attempts>>

---------------------------------------------------------------------------
(* Bounds of the model *)

\* logins awaiting bcrypt.compare at one time
MaxCompares == 2
\* data rows of an employees.csv that was written by hand
MaxRows == 2
\* requests started in one behaviour
MaxReqs == 2
\* the clock stops advancing here
MaxTime == 2

---------------------------------------------------------------------------
(* Text *)

QUOTE == "\""
COMMA == ","
NL == "\n"
CR == "\r"

HeaderText == <<"i", "d", ",", "n", "a", "m", "e", ",", "e", "m", "a", "i", "l", ",",
    "l", "a", "t", "i", "t", "u", "d", "e", ",", "l", "o", "n", "g", "i", "t", "u", "d", "e",
    ",", "c", "i", "t", "y", ",", "l", "a", "s", "t", "S", "e", "e", "n">>
Unknown == <<"U", "n", "k", "n", "o", "w", "n">>
NearText == <<"N", "e", "a", "r", " ">>
UnknownLocation == <<"U", "n", "k", "n", "o", "w", "n", " ", "L", "o", "c", "a", "t", "i", "o", "n">>
Empty == <<>>

\* String.prototype.trim: the white space JavaScript strips
IsWhite(c) == c \in {" ", "\t", "\n", "\r"}

RECURSIVE TrimStart(_)
TrimStart(s) ==
    IF s # <<>> /\ IsWhite(Head(s)) THEN TrimStart(Tail(s)) ELSE s

RECURSIVE TrimEnd(_)
TrimEnd(s) ==
    IF s # <<>> /\ IsWhite(s[Len(s)]) THEN TrimEnd(SubSeq(s, 1, Len(s) - 1)) ELSE s

trim(s) == TrimEnd(TrimStart(s))

\* String.prototype.split(c) for a one-character separator
split(s, c) ==
    LET at == {i \in 1..Len(s) : s[i] = c}
        n == Cardinality(at)
        pos(k) == IF k = 0 THEN 0
                  ELSE IF k = n + 1 THEN Len(s) + 1
                  ELSE CHOOSE i \in at : Cardinality({j \in at : j < i}) = k - 1
    IN  [k \in 1..(n + 1) |-> SubSeq(s, pos(k - 1) + 1, pos(k) - 1)]

\* split(/\r?\n/): a line feed separates, and a carriage return right before
\* it belongs to the separator
DropCR(s) ==
    IF s # <<>> /\ s[Len(s)] = CR THEN SubSeq(s, 1, Len(s) - 1) ELSE s

splitLines(r, s) ==
    LET ls == split(s, NL)
    IN  IF r = 1
        THEN [i \in 1..Len(ls) |-> IF i < Len(ls) THEN DropCR(ls[i]) ELSE ls[i]]
        ELSE ls

\* Array.prototype.join
RECURSIVE join(_, _)
join(parts, sep) ==
    IF parts = <<>> THEN <<>>
    ELSE IF Len(parts) = 1 THEN parts[1]
    ELSE parts[1] \o sep \o join(Tail(parts), sep)

\* s.replace(/^"|"$/g, ''): one leading and one trailing quote are removed
stripQuotes(s) ==
    LET a == IF s # <<>> /\ Head(s) = QUOTE THEN Tail(s) ELSE s
    IN  IF a # <<>> /\ a[Len(a)] = QUOTE THEN SubSeq(a, 1, Len(a) - 1) ELSE a

\* s.replace(/"/g, '""'): every quote is doubled
RECURSIVE escapeQuotes(_)
escapeQuotes(s) ==
    IF s = <<>> THEN <<>>
    ELSE (IF Head(s) = QUOTE THEN <<QUOTE, QUOTE>> ELSE <<Head(s)>>) \o escapeQuotes(Tail(s))

\* `"${...}"`
quoted(s) == <<QUOTE>> \o escapeQuotes(s) \o <<QUOTE>>

\* a || b on strings: the empty string is falsy
OrElse(a, b) == IF a = <<>> THEN b ELSE a

---------------------------------------------------------------------------
(* The record store: employees.csv *)

Employee(id, name, email, latitude, longitude, city, lastSeen) ==
    [id |-> id, name |-> name, email |-> email, latitude |-> latitude,
     longitude |-> longitude, city |-> city, lastSeen |-> lastSeen]

\* one cell of a row: parts[i].replace(/^"|"$/g, '').trim()
cell(p) == trim(stripQuotes(p))

\* the map callback, were it to keep the rows whose id is empty
parseLineAnyId(r, line) ==
    LET parts == split(line, COMMA)
    IN  IF r = 1 /\ trim(line) = <<>> THEN <<>>
        ELSE IF Len(parts) < 7 THEN <<>>
        ELSE <<Employee(cell(parts[1]),
                        OrElse(cell(parts[2]), Unknown),
                        OrElse(cell(parts[3]), Empty),
                        OrElse(cell(parts[4]), Empty),
                        OrElse(cell(parts[5]), Empty),
                        OrElse(cell(parts[6]), Unknown),
                        OrElse(cell(parts[7]), Empty))>>

\* the map callback of readEmployees: a record, or <<>> for null
parseLine(r, line) ==
    LET parts == split(line, COMMA)
    IN  IF r = 1 /\ trim(line) = <<>> THEN <<>>
        ELSE IF Len(parts) < 7 THEN <<>>
        ELSE IF cell(parts[1]) = <<>> THEN <<>>
        ELSE <<Employee(cell(parts[1]),
                        OrElse(cell(parts[2]), Unknown),
                        OrElse(cell(parts[3]), Empty),
                        OrElse(cell(parts[4]), Empty),
                        OrElse(cell(parts[5]), Empty),
                        OrElse(cell(parts[6]), Unknown),
                        OrElse(cell(parts[7]), Empty))>>

RECURSIVE parseLines(_, _)
parseLines(r, ls) ==
    IF ls = <<>> THEN <<>> ELSE parseLine(r, Head(ls)) \o parseLines(r, Tail(ls))

\* readEmployees(): the records of the file's text
readEmployees(r, data) ==
    IF trim(data) = <<>> THEN <<>>
    ELSE parseLines(r, Tail(splitLines(r, trim(data))))

\* one row of writeEmployees
csvLine(r, emp) ==
    IF r = 1
    THEN join(<<emp.id, quoted(OrElse(emp.name, Empty)), quoted(OrElse(emp.email, Empty)),
                OrElse(emp.latitude, Empty), OrElse(emp.longitude, Empty),
                quoted(OrElse(emp.city, Unknown)), OrElse(emp.lastSeen, Empty)>>, <<COMMA>>)
    ELSE join(<<emp.id, quoted(emp.name), quoted(emp.email), emp.latitude, emp.longitude,
                quoted(emp.city), emp.lastSeen>>, <<COMMA>>)

\* the text writeEmployees(employees) gives to fs.writeFileSync
csvText(r, employees) ==
    join(<<HeaderText>> \o [i \in 1..Len(employees) |-> csvLine(r, employees[i])], <<NL>>)
        \o <<NL>>

---------------------------------------------------------------------------
(* Request values and numbers *)

\* a JSON value of a request body: missing (undefined or null), a number, a string
Absent == [t |-> "absent"]
Num(h) == [t |-> "num", v |-> h]
Str(s) == [t |-> "str", s |-> s]

\* a number: NaN, or v hundredths
NaN == [nan |-> TRUE, v |-> 0]
Number(h) == [nan |-> FALSE, v |-> h]
isNaN(x) == x.nan

DigitChars == <<"0", "1", "2", "3", "4", "5", "6", "7", "8", "9">>
IsDigit(c) == \E d \in 1..10 : DigitChars[d] = c
DigitVal(c) == (CHOOSE d \in 1..10 : DigitChars[d] = c) - 1

RECURSIVE digitRun(_)
digitRun(s) ==
    IF s # <<>> /\ IsDigit(Head(s)) THEN <<Head(s)>> \o digitRun(Tail(s)) ELSE <<>>

RECURSIVE digitsValue(_)
digitsValue(ds) ==
    IF ds = <<>> THEN 0
    ELSE digitsValue(SubSeq(ds, 1, Len(ds) - 1)) * 10 + DigitVal(ds[Len(ds)])

RECURSIVE natToString(_)
natToString(n) ==
    IF n < 10 THEN <<DigitChars[n + 1]>>
    ELSE natToString(n \div 10) \o <<DigitChars[(n % 10) + 1]>>

\* Number.prototype.toString of h/100: no trailing zeros, no point for an integer
numberToString(h) ==
    LET a == IF h < 0 THEN -h ELSE h
        fp == a % 100
        frac == IF fp = 0 THEN <<>>
                ELSE IF fp % 10 = 0 THEN <<".", DigitChars[(fp \div 10) + 1]>>
                ELSE <<".", DigitChars[(fp \div 10) + 1], DigitChars[(fp % 10) + 1]>>
    IN  (IF h < 0 THEN <<"-">> ELSE <<>>) \o natToString(a \div 100) \o frac

\* String(v) of a present value
toText(v) == IF v.t = "num" THEN numberToString(v.v) ELSE v.s

\* parseFloat on text: leading white space, a sign, digits, a point, digits; what
\* follows is ignored; NaN when there is no digit.  Hundredths are kept.
parseFloatText(s) ==
    LET t == TrimStart(s)
        neg == t # <<>> /\ Head(t) = "-"
        u == IF t # <<>> /\ Head(t) \in {"-", "+"} THEN Tail(t) ELSE t
        ip == digitRun(u)
        rest == SubSeq(u, Len(ip) + 1, Len(u))
        fp == IF rest # <<>> /\ Head(rest) = "." THEN digitRun(Tail(rest)) ELSE <<>>
        f2 == (IF Len(fp) >= 1 THEN DigitVal(fp[1]) * 10 ELSE 0)
              + (IF Len(fp) >= 2 THEN DigitVal(fp[2]) ELSE 0)
        mag == digitsValue(ip) * 100 + f2
    IN  IF ip = <<>> /\ fp = <<>> THEN NaN ELSE IF neg THEN Number(-mag) ELSE Number(mag)

parseFloat(v) == parseFloatText(toText(v))

\* !v
Falsy(v) == v.t = "absent" \/ (v.t = "str" /\ v.s = <<>>) \/ (v.t = "num" /\ v.v = 0)

\* new Date(t).toISOString()
toISOString(t) == <<"T">> \o natToString(t) \o <<"Z">>

---------------------------------------------------------------------------
(* The geocoding cache *)

\* 1000 * 60 * 60 * 24 ms: 24 hours, two units of the clock
CACHE_TTL == 2

\* Math.round(x * 10) / 10 on hundredths: to the nearest tenth, halves upwards
roundTenth(h) == ((h + 5) \div 10) * 10

getCacheKey(lat, lng) ==
    numberToString(roundTenth(lat)) \o <<COMMA>> \o numberToString(roundTenth(lng))

\* cacheHit taking an entry whose age equals the TTL for a hit
cacheHitInclusive(cache, key, t) ==
    key \in DOMAIN cache /\ t - cache[key].timestamp <= CACHE_TTL

\* cityCache[key] && now - cityCache[key].timestamp < CACHE_TTL
cacheHit(cache, key, t) ==
    key \in DOMAIN cache /\ t - cache[key].timestamp < CACHE_TTL

\* cityCache[key] = { city, timestamp }
cachePut(cache, key, city, ts) ==
    [k \in DOMAIN cache \cup {key} |->
        IF k = key THEN [city |-> city, timestamp |-> ts] ELSE cache[k]]

\* getCityFromCoordinates after the await: the try block and the catch block
\* both store what they return, under the time the call began
storeResult(cache, key, start, res) == cachePut(cache, key, res.city, start)

\* The answers of the reverse-geocoding service.  An address is the sequence of
\* its fields city, town, village, hamlet, county, state, country; an empty
\* field is one the answer does not carry.
NoAddress == <<>>
NoName == <<>>
NetworkError == [kind |-> "error"]
HttpError == [kind |-> "http"]
BadJson == [kind |-> "badjson"]
Json(hasAddress, address, hasName, display_name) ==
    [kind |-> "json", hasAddress |-> hasAddress, address |-> address,
     hasName |-> hasName, display_name |-> display_name]

\* a || b || ... over the address fields: the first that is not empty
RECURSIVE firstField(_)
firstField(fields) ==
    IF fields = <<>> THEN <<>>
    ELSE IF Head(fields) # <<>> THEN Head(fields)
    ELSE firstField(Tail(fields))

\* geocodeResult with a catch block that returns no place name
geocodeResultNoDefault(r, reply) ==
    IF reply.kind # "json" THEN [failed |-> TRUE, city |-> Empty]
    ELSE IF ~reply.hasAddress THEN [failed |-> FALSE, city |-> Unknown]
    ELSE IF firstField(reply.address) # <<>>
         THEN [failed |-> FALSE, city |-> firstField(reply.address)]
    ELSE IF ~reply.hasName
         THEN IF r = 1 THEN [failed |-> FALSE, city |-> NearText \o UnknownLocation]
              ELSE [failed |-> TRUE, city |-> Empty]
    ELSE [failed |-> FALSE,
          city |-> NearText \o
                   (IF r = 1 THEN OrElse(split(reply.display_name, COMMA)[1], UnknownLocation)
                    ELSE split(reply.display_name, COMMA)[1])]

\* the body of try in getCityFromCoordinates, after the answer arrived:
\* [failed, city]; failed is the catch branch
geocodeResult(r, reply) ==
    IF reply.kind # "json" THEN [failed |-> TRUE, city |-> Unknown]
    ELSE IF ~reply.hasAddress THEN [failed |-> FALSE, city |-> Unknown]
    ELSE IF firstField(reply.address) # <<>>
         THEN [failed |-> FALSE, city |-> firstField(reply.address)]
    ELSE IF ~reply.hasName
         THEN IF r = 1 THEN [failed |-> FALSE, city |-> NearText \o UnknownLocation]
              ELSE [failed |-> TRUE, city |-> Unknown]
    ELSE [failed |-> FALSE,
          city |-> NearText \o
                   (IF r = 1 THEN OrElse(split(reply.display_name, COMMA)[1], UnknownLocation)
                    ELSE split(reply.display_name, COMMA)[1])]

---------------------------------------------------------------------------
(* Inputs *)

IdA == <<"a">>
IdB == <<"b">>
IdC == <<"c">>
\* an id that readEmployees reads back as IdA
IdPaddedA == <<" ", "a">>
\* an id that readEmployees reads back with one quote less each time it is
\* written and read
IdQuotedA == <<QUOTE, QUOTE, "a">>
NamePlain == <<"n">>
NameQuote == <<"x", QUOTE, "y">>
\* a name such as "Doe, John"
NameComma == <<"x", COMMA, "y">>
EmailPlain == <<"e">>

NotSharing(id, name) == Employee(id, name, EmailPlain, Empty, Empty, Unknown, Empty)

\* the records of a pre-seeded employees.csv
Seeds == {<<>>, <<NotSharing(IdA, NamePlain), NotSharing(IdB, NameQuote)>>}

\* rows of an employees.csv that was edited by hand: two rows as writeEmployees
\* writes them, one of them ended by a carriage return, a row of eight fields,
\* a row of three fields, rows whose id is empty, blank or a pair of quotes,
\* an empty row and a row of blanks
Rows(r) ==
    {csvLine(r, NotSharing(IdA, NamePlain)),
     csvLine(r, NotSharing(IdB, NameQuote)),
     csvLine(r, NotSharing(IdC, NamePlain)) \o <<CR>>,
     join(<<IdC, <<"x">>, <<"y">>, EmailPlain, Empty, Empty, Unknown, Empty>>, <<COMMA>>),
     join(<<IdC, NamePlain, EmailPlain>>, <<COMMA>>),
     join(<<Empty, NamePlain, EmailPlain, Empty, Empty, Unknown, Empty>>, <<COMMA>>),
     join(<<<<" ">>, NamePlain, EmailPlain, Empty, Empty, Unknown, Empty>>, <<COMMA>>),
     join(<<<<QUOTE, QUOTE>>, NamePlain, EmailPlain, Empty, Empty, Unknown, Empty>>, <<COMMA>>),
     Empty,
     <<" ", " ">>}

RowSeqs(r) == UNION {[1..n -> Rows(r)] : n \in 0..MaxRows}

\* the file of the header and the rows, each ended by a line feed
FileOf(rows) == join(<<HeaderText>> \o rows, <<NL>>) \o <<NL>>

\* an employees.csv: of no bytes, or the header and rows
Files(r) == {Empty} \cup {FileOf(rows) : rows \in RowSeqs(r)}

UpdateBody(id, latitude, longitude) ==
    [id |-> id, latitude |-> latitude, longitude |-> longitude]

\* (40.71, -74.00) and (40.70, -74.02) share the bucket 40.7,-74
UpdateBodies ==
    {UpdateBody(Str(IdA), Num(4071), Num(-7400)),
     UpdateBody(Str(IdB), Str(<<"4", "0", ".", "7", "0">>), Num(-7402)),
     UpdateBody(Str(IdC), Num(5150), Str(<<"-", "0", ".", "1", "3">>)),
     UpdateBody(Str(IdA), Num(9500), Num(0)),
     UpdateBody(Str(IdC), Num(0), Num(-18100)),
     UpdateBody(Str(IdA), Str(<<"n", "o">>), Num(0)),
     UpdateBody(Str(IdA), Num(0), Absent),
     UpdateBody(Absent, Num(4071), Num(-7400))}

StopBodies == {[id |-> Str(IdA)], [id |-> Str(IdB)], [id |-> Str(IdC)], [id |-> Absent]}

CreateBody(id, name, email) == [id |-> id, name |-> name, email |-> email]

CreateBodies ==
    {CreateBody(Str(IdA), Str(NamePlain), Str(EmailPlain)),
     CreateBody(Str(IdPaddedA), Str(NamePlain), Str(EmailPlain)),
     CreateBody(Str(IdQuotedA), Str(NamePlain), Str(EmailPlain)),
     CreateBody(Str(IdC), Str(NameQuote), Str(EmailPlain)),
     CreateBody(Str(IdC), Str(NameComma), Str(EmailPlain)),
     CreateBody(Str(IdB), Absent, Str(EmailPlain))}

UpstreamReplies ==
    {NetworkError, HttpError, BadJson,
     Json(TRUE, <<<<"P">>, <<>>, <<>>, <<>>, <<>>, <<>>, <<"C">>>>, FALSE, NoName)}

---------------------------------------------------------------------------
(* The handlers *)

NoCity == <<"none">>

\* emp.id === id
sameId(emp, id) == id.t = "str" /\ emp.id = id.s

\* employees.findIndex(emp => emp.id === id), 0 for -1
findIndex(employees, id) ==
    IF \E i \in 1..Len(employees) : sameId(employees[i], id)
    THEN CHOOSE i \in 1..Len(employees) :
            sameId(employees[i], id) /\ \A j \in 1..(i - 1) : ~sameId(employees[j], id)
    ELSE 0

\* employees.filter(emp => emp.id !== id)
RECURSIVE filterOut(_, _)
filterOut(employees, id) ==
    IF employees = <<>> THEN <<>>
    ELSE (IF sameId(Head(employees), id) THEN <<>> ELSE <<Head(employees)>>)
         \o filterOut(Tail(employees), id)

\* what a handler leaves behind: the file, and the response it sent (status,
\* and success, city and message of the body; city NoCity when it has none)
Outcome(data, status, success, city, message) ==
    [file |-> data, status |-> status, success |-> success, city |-> city,
     message |-> message]

\* writeEmployees(employees): the file after it, with wok the success of
\* fs.writeFileSync; a failed write leaves the file as it was
writeEmployees(r, data, employees, wok) == IF wok THEN csvText(r, employees) ELSE data

\* updateRejected without the check of the ranges
updateRejectedNoRange(r, b) ==
    IF Falsy(b.id) \/ b.latitude = Absent \/ b.longitude = Absent THEN "Missing data"
    ELSE IF isNaN(parseFloat(b.latitude)) \/ isNaN(parseFloat(b.longitude))
         THEN "Invalid coordinates"
    ELSE ""

\* /update-location, the checks of the request body: the message of the 400
\* response, "" when the body passes
updateRejected(r, b) ==
    IF Falsy(b.id) \/ b.latitude = Absent \/ b.longitude = Absent THEN "Missing data"
    ELSE IF isNaN(parseFloat(b.latitude)) \/ isNaN(parseFloat(b.longitude))
         THEN "Invalid coordinates"
    ELSE LET lat == parseFloat(b.latitude).v
             lng == parseFloat(b.longitude).v
         IN  IF lat < -9000 \/ lat > 9000 \/ lng < -18000 \/ lng > 18000
             THEN IF r = 1 THEN "Coordinates out of range" ELSE "Invalid coordinates"
             ELSE ""

\* updateWrite1 reading the store again before it writes
updateWrite1Reread(data, employees, id, lat, lng, city, t, wok) ==
    LET current == readEmployees(1, data)
        existingEmployee == employees[findIndex(employees, id)]
        updated == Employee(toText(id), existingEmployee.name, existingEmployee.email,
                            numberToString(lat), numberToString(lng), city, toISOString(t))
        all == filterOut(current, id) \o <<updated>>
    IN  IF wok
        THEN Outcome(writeEmployees(1, data, all, wok), 200, TRUE, city, "")
        ELSE Outcome(writeEmployees(1, data, all, wok), 500, FALSE, NoCity,
                     "Failed to update location")

\* /update-location, revision 1 after getCityFromCoordinates returned: employees
\* is the list read before the call
updateWrite1(data, employees, id, lat, lng, city, t, wok) ==
    LET existingEmployee == employees[findIndex(employees, id)]
        updated == Employee(toText(id), existingEmployee.name, existingEmployee.email,
                            numberToString(lat), numberToString(lng), city, toISOString(t))
        all == filterOut(employees, id) \o <<updated>>
    IN  IF wok
        THEN Outcome(writeEmployees(1, data, all, wok), 200, TRUE, city, "")
        ELSE Outcome(writeEmployees(1, data, all, wok), 500, FALSE, NoCity,
                     "Failed to update location")

\* updateWrite2 creating an entry for an id it does not find
updateWrite2Upsert(data, id, lat, lng, city, t, wok) ==
    LET employees == readEmployees(2, data)
        existingIndex == findIndex(employees, id)
        entry == Employee(toText(id), Unknown, Empty, numberToString(lat),
                          numberToString(lng), city, toISOString(t))
        changed == IF existingIndex = 0 THEN employees \o <<entry>>
                   ELSE [employees EXCEPT ![existingIndex] =
                            [@ EXCEPT !.latitude = numberToString(lat),
                                      !.longitude = numberToString(lng),
                                      !.city = city,
                                      !.lastSeen = toISOString(t)]]
    IN  IF wok
        THEN Outcome(writeEmployees(2, data, changed, wok), 200, TRUE, city, "")
        ELSE Outcome(writeEmployees(2, data, changed, wok), 500, FALSE, NoCity,
                     "Failed to update location")

\* updateWrite2 with a guard that answers 409 for a record that shares a
\* location seen at the current time
updateWrite2Guard(data, id, lat, lng, city, t, wok) ==
    LET employees == readEmployees(2, data)
        existingIndex == findIndex(employees, id)
        changed == [employees EXCEPT ![existingIndex] =
                        [@ EXCEPT !.latitude = numberToString(lat),
                                  !.longitude = numberToString(lng),
                                  !.city = city,
                                  !.lastSeen = toISOString(t)]]
    IN  IF existingIndex = 0
        THEN Outcome(data, 404, FALSE, NoCity, "Employee ID not found")
        ELSE IF /\ employees[existingIndex].lastSeen = toISOString(t)
                /\ employees[existingIndex].latitude # Empty
        THEN Outcome(data, 409, FALSE, NoCity, "ID in use")
        ELSE IF wok
        THEN Outcome(writeEmployees(2, data, changed, wok), 200, TRUE, city, "")
        ELSE Outcome(writeEmployees(2, data, changed, wok), 500, FALSE, NoCity,
                     "Failed to update location")

\* updateWrite2 answering success without looking at what writeEmployees returned
updateWrite2Unchecked(data, id, lat, lng, city, t, wok) ==
    LET employees == readEmployees(2, data)
        existingIndex == findIndex(employees, id)
        changed == [employees EXCEPT ![existingIndex] =
                        [@ EXCEPT !.latitude = numberToString(lat),
                                  !.longitude = numberToString(lng),
                                  !.city = city,
                                  !.lastSeen = toISOString(t)]]
    IN  IF existingIndex = 0
        THEN Outcome(data, 404, FALSE, NoCity, "Employee ID not found")
        ELSE Outcome(writeEmployees(2, data, changed, wok), 200, TRUE, city, "")

\* /update-location, revision 2 after getCityFromCoordinates returned
updateWrite2(data, id, lat, lng, city, t, wok) ==
    LET employees == readEmployees(2, data)
        existingIndex == findIndex(employees, id)
        changed == [employees EXCEPT ![existingIndex] =
                        [@ EXCEPT !.latitude = numberToString(lat),
                                  !.longitude = numberToString(lng),
                                  !.city = city,
                                  !.lastSeen = toISOString(t)]]
    IN  IF existingIndex = 0
        THEN Outcome(data, 404, FALSE, NoCity, "Employee ID not found")
        ELSE IF wok
        THEN Outcome(writeEmployees(2, data, changed, wok), 200, TRUE, city, "")
        ELSE Outcome(writeEmployees(2, data, changed, wok), 500, FALSE, NoCity,
                     "Failed to update location")

\* stopSharing answering 404 for an id it does not find
stopSharingStrict(r, data, id, wok) ==
    LET employees == readEmployees(r, data)
        empIndex == findIndex(employees, id)
        cleared == [employees EXCEPT ![empIndex] =
                        [@ EXCEPT !.latitude = Empty, !.longitude = Empty,
                                  !.city = Unknown, !.lastSeen = Empty]]
    IN  IF Falsy(id) THEN Outcome(data, 400, FALSE, NoCity, "ID required")
        ELSE IF empIndex = 0 THEN Outcome(data, 404, FALSE, NoCity, "Employee ID not found")
        ELSE IF wok
        THEN Outcome(writeEmployees(r, data, cleared, wok), 200, TRUE, NoCity, "")
        ELSE Outcome(writeEmployees(r, data, cleared, wok), 500, FALSE, NoCity, "Write failed")

\* /stop-sharing
stopSharing(r, data, id, wok) ==
    LET employees == readEmployees(r, data)
        empIndex == findIndex(employees, id)
        cleared == [employees EXCEPT ![empIndex] =
                        [@ EXCEPT !.latitude = Empty, !.longitude = Empty,
                                  !.city = Unknown, !.lastSeen = Empty]]
    IN  IF Falsy(id) THEN Outcome(data, 400, FALSE, NoCity, "ID required")
        ELSE IF empIndex = 0 THEN Outcome(data, 200, TRUE, NoCity, "")
        ELSE IF wok
        THEN Outcome(writeEmployees(r, data, cleared, wok), 200, TRUE, NoCity, "")
        ELSE Outcome(writeEmployees(r, data, cleared, wok), 500, FALSE, NoCity, "Write failed")

\* createEmployee without the test for an id that exists
createEmployeeNoTest(data, b, wok) ==
    LET employees == readEmployees(2, data)
        newEmp == Employee(toText(b.id), toText(b.name), toText(b.email),
                           Empty, Empty, Unknown, Empty)
    IN  IF Falsy(b.id) \/ Falsy(b.name) \/ Falsy(b.email)
        THEN Outcome(data, 200, FALSE, NoCity, "All fields are required")
        ELSE IF wok
        THEN Outcome(writeEmployees(2, data, employees \o <<newEmp>>, wok), 200, TRUE,
                     NoCity, "")
        ELSE Outcome(writeEmployees(2, data, employees \o <<newEmp>>, wok), 200, FALSE,
                     NoCity, "Failed to save employee")

\* /create-employee, a route of revision 2 only
createEmployee(data, b, wok) ==
    LET employees == readEmployees(2, data)
        newEmp == Employee(toText(b.id), toText(b.name), toText(b.email),
                           Empty, Empty, Unknown, Empty)
    IN  IF Falsy(b.id) \/ Falsy(b.name) \/ Falsy(b.email)
        THEN Outcome(data, 200, FALSE, NoCity, "All fields are required")
        ELSE IF \E i \in 1..Len(employees) : sameId(employees[i], b.id)
        THEN Outcome(data, 200, FALSE, NoCity, "ID already exists")
        ELSE IF wok
        THEN Outcome(writeEmployees(2, data, employees \o <<newEmp>>, wok), 200, TRUE,
                     NoCity, "")
        ELSE Outcome(writeEmployees(2, data, employees \o <<newEmp>>, wok), 200, FALSE,
                     NoCity, "Failed to save employee")

---------------------------------------------------------------------------
(* Login, logout and the manager page *)

COLON == ":"
\* what bcrypt.hash makes of a password is modelled as the password after a mark
HASHMARK == "#"

\* password.txt: a text, or Missing when fs.existsSync finds no file
Missing == <<"missing">>
UserText == <<"m">>
SecretText == <<"s">>
WrongText == <<"w">>
PasswordFiles ==
    {Missing,
     UserText \o <<NL>>,
     UserText \o <<COLON>> \o SecretText \o <<NL>>,
     UserText \o <<COLON, HASHMARK>> \o SecretText \o <<NL>>}

\* the browser sessions
SessionIds == {1, 2}

LoginBody(username, password) == [username |-> username, password |-> password]
LoginBodies ==
    {LoginBody(Str(UserText), Str(SecretText)),
     LoginBody(Str(UserText), Str(WrongText)),
     LoginBody(Str(WrongText), Str(SecretText)),
     LoginBody(Str(UserText), Absent)}

\* the n-th part of a split, Absent when there is none (destructuring)
part(parts, n) == IF n <= Len(parts) THEN Str(parts[n]) ELSE Absent

\* bcrypt.compare(password, hash): "error" when the password is no string
bcryptCompare(password, hash) ==
    IF password = Absent THEN "error"
    ELSE IF hash = <<HASHMARK>> \o password.s THEN "match"
    ELSE "differ"

\* what /login answers: status, the text sent or the place redirected to, and
\* whether it set req.session.loggedIn
LoginOutcome(status, message, grant) ==
    [status |-> status, message |-> message, grant |-> grant]

\* /login of revision 1
login1(pwfile, b) ==
    LET auth == trim(pwfile)
        user == part(split(auth, COLON), 1)
        pass == part(split(auth, COLON), 2)
    IN  IF Falsy(b.username) \/ Falsy(b.password)
        THEN LoginOutcome(400, "Username and password required", FALSE)
        ELSE IF pwfile = Missing THEN LoginOutcome(500, "Server not configured", FALSE)
        ELSE IF Falsy(user) \/ Falsy(pass) \/ trim(user.s) = <<>> \/ trim(pass.s) = <<>>
        THEN LoginOutcome(500, "Server config error", FALSE)
        ELSE IF b.username.s = trim(user.s) /\ b.password.s = trim(pass.s)
        THEN LoginOutcome(302, "/manager", TRUE)
        ELSE LoginOutcome(200, "Invalid credentials", FALSE)

\* /login of revision 2 up to bcrypt.compare: status 0 when it calls it
login2(pwfile, b) ==
    LET auth == trim(pwfile)
        user == part(split(auth, COLON), 1)
        hash == part(split(auth, COLON), 2)
    IN  IF pwfile = Missing THEN LoginOutcome(500, "Server not configured", FALSE)
        ELSE IF Falsy(user) \/ Falsy(hash)
        THEN LoginOutcome(500, "Server config error", FALSE)
        ELSE IF b.username = user THEN LoginOutcome(0, "compare", FALSE)
        ELSE LoginOutcome(302, "/?error=1", FALSE)

\* the callback, were it to log in whoever bcrypt.compare raised no error for
comparedAny(pwfile, b) ==
    LET hash == part(split(trim(pwfile), COLON), 2).s
    IN  IF bcryptCompare(b.password, hash) = "error"
        THEN LoginOutcome(500, "Server error during login", FALSE)
        ELSE LoginOutcome(302, "/manager", TRUE)

\* the callback of bcrypt.compare in /login of revision 2
compared(pwfile, b) ==
    LET hash == part(split(trim(pwfile), COLON), 2).s
    IN  IF bcryptCompare(b.password, hash) = "error"
        THEN LoginOutcome(500, "Server error during login", FALSE)
        ELSE IF bcryptCompare(b.password, hash) = "match"
        THEN LoginOutcome(302, "/manager", TRUE)
        ELSE LoginOutcome(302, "/?error=1", FALSE)

\* GET /manager
manager(loggedIn) ==
    IF ~loggedIn THEN LoginOutcome(302, "/", FALSE)
    ELSE LoginOutcome(200, "manager.html", FALSE)

---------------------------------------------------------------------------
(* The state machine *)

\* the response sent last: op its route, req the body of the request it answers,
\* geo how its place name was obtained ("none", "hit", "ok", "failed")
Response(op, req, out, geo) ==
    [op |-> op, req |-> req, status |-> out.status, success |-> out.success,
     city |-> out.city, message |-> out.message, geo |-> geo, employees |-> <<>>]

\* one call of getCityFromCoordinates that went upstream: n its number (they
\* are numbered as they begin), id the id of the request that made it, start
\* its Date.now(), state "wait" (awaiting the answer), "ok" or "failed"
Lookup(n, id, key, start, state) ==
    [n |-> n, id |-> id, key |-> key, start |-> start, state |-> state]

\* fs.writeFileSync can throw only on a disk that is "faulty"
Writes == IF disk = "faulty" THEN {TRUE, FALSE} ELSE {TRUE}

InitServer ==
    /\ rev \in {1, 2}
    /\ cityCache = <<>>
    /\ now = 0
    /\ pending = {}
    /\ nreq = 0
    /\ lookups = {}
    /\ last = [op |-> "none", req |-> [id |-> Absent], status |-> 0, success |-> FALSE,
               city |-> NoCity, message |-> "", geo |-> "none", employees |-> <<>>]
    /\ sessions = [s \in SessionIds |-> FALSE]
    /\ comparing = {}
    /\ attempts = [s \in SessionIds |-> {}]

\* employees.csv as the server wrote it
InitStore ==
    /\ InitServer
    /\ \E seed \in Seeds : file = csvText(rev, seed)

\* the disk takes every write
Init == InitStore /\ disk = "sound" /\ passwordFile = Missing

\* writes can fail
InitFaulty == InitStore /\ disk = "faulty" /\ passwordFile = Missing

\* any employees.csv
InitLoad ==
    /\ InitServer
    /\ file \in Files(rev)
    /\ disk = "sound"
    /\ passwordFile = Missing

\* any password.txt, no employees
InitAuth ==
    /\ InitStore
    /\ file = csvText(rev, <<>>)
    /\ disk = "sound"
    /\ passwordFile \in PasswordFiles

\* UpdateLocation, were a hit to store the entry again under the current time
UpdateLocationRefresh(b, wok) ==
    /\ nreq < MaxReqs
    /\ nreq' = nreq + 1
    /\ UNCHANGED <<passwordFile, sessions, comparing, attempts, rev, disk, now>>
    /\ LET n == Cardinality(lookups) + 1
           lat == parseFloat(b.latitude).v
           lng == parseFloat(b.longitude).v
           key == getCacheKey(lat, lng)
           employees == IF rev = 1 THEN readEmployees(1, file) ELSE <<>>
       IN  IF updateRejected(rev, b) # ""
           THEN /\ last' = Response("update", b,
                              Outcome(file, 400, FALSE, NoCity, updateRejected(rev, b)), "none")
                /\ UNCHANGED <<file, cityCache, pending, lookups>>
           ELSE IF rev = 1 /\ findIndex(employees, b.id) = 0
           THEN /\ last' = Response("update", b,
                              Outcome(file, 404, FALSE, NoCity, "Employee ID not found"), "none")
                /\ UNCHANGED <<file, cityCache, pending, lookups>>
           ELSE IF cacheHit(cityCache, key, now)
           THEN LET city == cityCache[key].city
                    out == IF rev = 1
                           THEN updateWrite1(file, employees, b.id, lat, lng, city, now, wok)
                           ELSE updateWrite2(file, b.id, lat, lng, city, now, wok)
                IN  /\ file' = out.file
                    /\ last' = Response("update", b, out, "hit")
                    /\ cityCache' = cachePut(cityCache, key, city, now)
                    /\ UNCHANGED <<pending, lookups>>
           ELSE /\ pending' = pending \cup
                      {[n |-> n, req |-> b, lat |-> lat, lng |-> lng, key |-> key,
                        start |-> now, employees |-> employees]}
                /\ lookups' = lookups \cup {Lookup(n, b.id.s, key, now, "wait")}
                /\ UNCHANGED <<file, cityCache, last>>

\* POST /update-location, to its response or to the await of the upstream call
UpdateLocation(b, wok) ==
    /\ nreq < MaxReqs
    /\ nreq' = nreq + 1
    /\ UNCHANGED <<passwordFile, sessions, comparing, attempts, rev, disk, now>>
    /\ LET n == Cardinality(lookups) + 1
           lat == parseFloat(b.latitude).v
           lng == parseFloat(b.longitude).v
           key == getCacheKey(lat, lng)
           employees == IF rev = 1 THEN readEmployees(1, file) ELSE <<>>
       IN  IF updateRejected(rev, b) # ""
           THEN /\ last' = Response("update", b,
                              Outcome(file, 400, FALSE, NoCity, updateRejected(rev, b)), "none")
                /\ UNCHANGED <<file, cityCache, pending, lookups>>
           ELSE IF rev = 1 /\ findIndex(employees, b.id) = 0
           THEN /\ last' = Response("update", b,
                              Outcome(file, 404, FALSE, NoCity, "Employee ID not found"), "none")
                /\ UNCHANGED <<file, cityCache, pending, lookups>>
           ELSE IF cacheHit(cityCache, key, now)
           THEN LET city == cityCache[key].city
                    out == IF rev = 1
                           THEN updateWrite1(file, employees, b.id, lat, lng, city, now, wok)
                           ELSE updateWrite2(file, b.id, lat, lng, city, now, wok)
                IN  /\ file' = out.file
                    /\ last' = Response("update", b, out, "hit")
                    /\ UNCHANGED <<cityCache, pending, lookups>>
           ELSE /\ pending' = pending \cup
                      {[n |-> n, req |-> b, lat |-> lat, lng |-> lng, key |-> key,
                        start |-> now, employees |-> employees]}
                /\ lookups' = lookups \cup {Lookup(n, b.id.s, key, now, "wait")}
                /\ UNCHANGED <<file, cityCache, last>>

\* UpstreamAnswer, were getCityFromCoordinates to call upstream again after a
\* failed call
UpstreamAnswerRetry(p, reply, wok) ==
    /\ p \in pending
    /\ LET res == geocodeResult(rev, reply)
           out == IF rev = 1
                  THEN updateWrite1(file, p.employees, p.req.id, p.lat, p.lng, res.city, now, wok)
                  ELSE updateWrite2(file, p.req.id, p.lat, p.lng, res.city, now, wok)
           l == CHOOSE x \in lookups : x.n = p.n
           n == Cardinality(lookups) + 1
       IN  IF res.failed /\ n <= MaxReqs + 1
           THEN /\ pending' = (pending \ {p}) \cup {[p EXCEPT !.n = n]}
                /\ lookups' = (lookups \ {l}) \cup
                           {Lookup(l.n, l.id, l.key, l.start, "failed"),
                            Lookup(n, l.id, l.key, now, "wait")}
                /\ UNCHANGED <<cityCache, file, last>>
           ELSE /\ cityCache' = storeResult(cityCache, p.key, p.start, res)
                /\ file' = out.file
                /\ last' = Response("update", p.req, out, IF res.failed THEN "failed" ELSE "ok")
                /\ lookups' = (lookups \ {l}) \cup
                           {Lookup(l.n, l.id, l.key, l.start, IF res.failed THEN "failed" ELSE "ok")}
                /\ pending' = pending \ {p}
    /\ UNCHANGED <<passwordFile, sessions, comparing, attempts, rev, disk, now, nreq>>

\* the upstream call of a suspended /update-location is answered (or fails), and
\* the handler runs to its response
UpstreamAnswer(p, reply, wok) ==
    /\ p \in pending
    /\ LET res == geocodeResult(rev, reply)
           out == IF rev = 1
                  THEN updateWrite1(file, p.employees, p.req.id, p.lat, p.lng, res.city, now, wok)
                  ELSE updateWrite2(file, p.req.id, p.lat, p.lng, res.city, now, wok)
           l == CHOOSE x \in lookups : x.n = p.n
       IN  /\ cityCache' = storeResult(cityCache, p.key, p.start, res)
           /\ file' = out.file
           /\ last' = Response("update", p.req, out, IF res.failed THEN "failed" ELSE "ok")
           /\ lookups' = (lookups \ {l}) \cup
                      {Lookup(l.n, l.id, l.key, l.start, IF res.failed THEN "failed" ELSE "ok")}
    /\ pending' = pending \ {p}
    /\ UNCHANGED <<passwordFile, sessions, comparing, attempts, rev, disk, now, nreq>>

\* POST /stop-sharing
StopSharing(b, wok) ==
    /\ nreq < MaxReqs
    /\ nreq' = nreq + 1
    /\ LET out == stopSharing(rev, file, b.id, wok)
       IN  /\ file' = out.file
           /\ last' = Response("stop", b, out, "none")
    /\ UNCHANGED <<passwordFile, sessions, comparing, attempts, rev, disk, cityCache, now, pending, lookups>>

\* POST /create-employee, which revision 2 serves
CreateEmployee(b, wok) ==
    /\ rev = 2
    /\ nreq < MaxReqs
    /\ nreq' = nreq + 1
    /\ LET out == createEmployee(file, b, wok)
       IN  /\ file' = out.file
           /\ last' = Response("create", b, out, "none")
    /\ UNCHANGED <<passwordFile, sessions, comparing, attempts, rev, disk, cityCache, now, pending, lookups>>

\* time passes
Tick ==
    /\ now < MaxTime
    /\ now' = now + 1
    /\ UNCHANGED <<passwordFile, sessions, comparing, attempts, rev, disk, file, cityCache, pending, nreq, lookups, last>>

\* what /login, /logout and /manager answer on session s
AuthResponse(op, s, b, out) ==
    [op |-> op, req |-> [session |-> s, body |-> b], status |-> out.status,
     success |-> FALSE, city |-> NoCity, message |-> out.message, geo |-> "none",
     employees |-> <<>>]

\* the session as a /login leaves it
loggedIn(s, out) == IF out.grant THEN [sessions EXCEPT ![s] = TRUE] ELSE sessions

\* POST /login on session s, to its response or to the call of bcrypt.compare
Login(s, b) ==
    LET out == IF rev = 1 THEN login1(passwordFile, b) ELSE login2(passwordFile, b)
    IN  IF out.status = 0
        THEN /\ Cardinality(comparing) < MaxCompares
             /\ comparing' = comparing \cup {[session |-> s, body |-> b]}
             /\ UNCHANGED <<sessions, attempts, last>>
             /\ UNCHANGED <<passwordFile, rev, disk, file, cityCache, now, pending, nreq, lookups>>
        ELSE /\ sessions' = loggedIn(s, out)
             /\ attempts' = [attempts EXCEPT ![s] = @ \cup {b}]
             /\ last' = AuthResponse("login", s, b, out)
             /\ UNCHANGED comparing
             /\ UNCHANGED <<passwordFile, rev, disk, file, cityCache, now, pending, nreq, lookups>>

\* bcrypt.compare calls back
Compared(c) ==
    LET out == compared(passwordFile, c.body)
    IN  /\ comparing' = comparing \ {c}
        /\ sessions' = loggedIn(c.session, out)
        /\ attempts' = [attempts EXCEPT ![c.session] = @ \cup {c.body}]
        /\ last' = AuthResponse("login", c.session, c.body, out)
        /\ UNCHANGED <<passwordFile, rev, disk, file, cityCache, now, pending, nreq, lookups>>

\* GET /logout on session s
Logout(s) ==
    /\ sessions' = [sessions EXCEPT ![s] = FALSE]
    /\ attempts' = [attempts EXCEPT ![s] = {}]
    /\ last' = AuthResponse("logout", s, Absent, LoginOutcome(302, "/", FALSE))
    /\ UNCHANGED <<passwordFile, comparing, rev, disk, file, cityCache, now, pending, nreq, lookups>>

\* GET /manager on session s
Manager(s) ==
    /\ last' = AuthResponse("manager", s, Absent, manager(sessions[s]))
    /\ UNCHANGED <<passwordFile, sessions, comparing, attempts, rev, disk, file, cityCache, now, pending, nreq, lookups>>

Next ==
    \/ \E b \in UpdateBodies, wok \in Writes : UpdateLocation(b, wok)
    \/ \E p \in pending, reply \in UpstreamReplies, wok \in Writes : UpstreamAnswer(p, reply, wok)
    \/ \E b \in StopBodies, wok \in Writes : StopSharing(b, wok)
    \/ \E b \in CreateBodies, wok \in Writes : CreateEmployee(b, wok)
    \/ Tick

Spec == Init /\ [][Next]_vars

SpecFaulty == InitFaulty /\ [][Next]_vars

\* GET /employees
GetEmployees ==
    /\ last' = [op |-> "employees", req |-> [id |-> Absent], status |-> 200, success |-> FALSE,
                city |-> NoCity, message |-> "", geo |-> "none",
                employees |-> readEmployees(rev, file)]
    /\ UNCHANGED <<passwordFile, sessions, comparing, attempts, rev, disk, file, cityCache, now, pending, nreq, lookups>>

NextLoad == GetEmployees

\* the server on an employees.csv that was edited by hand
SpecLoad == InitLoad /\ [][NextLoad]_vars

NextAuth ==
    \/ \E s \in SessionIds, b \in LoginBodies : Login(s, b)
    \/ \E c \in comparing : Compared(c)
    \/ \E s \in SessionIds : Logout(s)
    \/ \E s \in SessionIds : Manager(s)

\* the server with only its login, logout and manager routes used
SpecAuth == InitAuth /\ [][NextAuth]_vars

---------------------------------------------------------------------------
(* What is observed of the store and of a step *)

\* the records the server reads from the store
Load == readEmployees(rev, file)

\* id is the id of a record of the store
Known(id) == id.t = "str" /\ \E i \in 1..Len(Load) : Load[i].id = id.s

\* the step takes a request in and answers it at once
Immediate == nreq' = nreq + 1 /\ pending' = pending

\* the step takes an update-location request in and leaves it awaiting upstream
Suspended == nreq' = nreq + 1 /\ pending' # pending

\* the step answers a suspended update-location request
Answered == nreq' = nreq /\ pending' # pending

\* the step sends a response, which is last'
Responded == Immediate \/ Answered

\* the request a Suspended step takes in, and the one an Answered step answers
Entering == CHOOSE p \in pending' \ pending : TRUE
Leaving == CHOOSE p \in pending \ pending' : TRUE

\* the body carries coordinates that parse to a latitude in [-90, 90] and a
\* longitude in [-180, 180]
ValidCoordinates(b) ==
    /\ b.latitude # Absent /\ b.longitude # Absent
    /\ ~parseFloat(b.latitude).nan /\ ~parseFloat(b.longitude).nan
    /\ parseFloat(b.latitude).v \in -9000..9000
    /\ parseFloat(b.longitude).v \in -18000..18000

\* the id is given (a non-empty text)
HasId(b) == b.id # Absent /\ b.id.s # <<>>

---------------------------------------------------------------------------
(* C1 *)

\* C1: the ids of the records that Load returns from the store are pairwise
\* distinct, after any sequence and interleaving of requests on a store that
\* began so.
C1_UniqueIds == \A i, j \in 1..Len(Load) : Load[i].id = Load[j].id => i = j

---------------------------------------------------------------------------
(* C2 *)

\* C2: an update-location request with valid coordinates whose id is not the id
\* of any record in the store when the handler looks it up is answered 404 and
\* the store is left as it was.  Revision 1 looks the id up when the request
\* comes in, so a request it leaves awaiting upstream has a known id; revision 2
\* looks it up after the place name is resolved.
C2_UnknownIdRejected ==
    [][ /\ (Suspended /\ rev = 1) => Known(Entering.req.id)
        /\ ( /\ Immediate \/ (Answered /\ rev = 2)
             /\ last'.op = "update"
             /\ HasId(last'.req) /\ ValidCoordinates(last'.req)
             /\ ~Known(last'.req.id) )
           => (last'.status = 404 /\ ~last'.success /\ file' = file) ]_vars

\* an update for the unknown id c was answered 404 after its place name had been
\* asked of the upstream service, the store holding records
C2_Witness ==
    /\ last.op = "update" /\ last.status = 404 /\ last.geo = "ok"
    /\ last.req.id = Str(IdC) /\ ~Known(Str(IdC)) /\ Len(Load) = 2

---------------------------------------------------------------------------
(* C3 *)

\* the body lacks the id, lacks a coordinate or has one that is no number, or
\* has a latitude outside [-90, 90] or a longitude outside [-180, 180]
BadBody(b) == ~HasId(b) \/ ~ValidCoordinates(b)

\* C3: an update-location request with a missing id, a missing or non-numeric
\* coordinate, or a coordinate out of range is answered 400 at once, and the
\* store is left as it was, whether or not the id exists.
C3_InvalidRejected ==
    [][ /\ Suspended => ~BadBody(Entering.req)
        /\ (Immediate /\ last'.op = "update" /\ BadBody(last'.req))
           => (last'.status = 400 /\ ~last'.success /\ file' = file) ]_vars

\* latitude 95 was answered 400 for the id a, which the store holds
C3_Witness ==
    /\ last.op = "update" /\ last.status = 400
    /\ last.req = UpdateBody(Str(IdA), Num(9500), Num(0))
    /\ Known(Str(IdA))

---------------------------------------------------------------------------
(* C4 *)

\* the first record of employees with the id, as a sequence of at most one
Record(employees, id) ==
    IF \E i \in 1..Len(employees) : employees[i].id = id
    THEN <<employees[CHOOSE i \in 1..Len(employees) :
                /\ employees[i].id = id
                /\ \A k \in 1..(i - 1) : employees[k].id # id]>>
    ELSE <<>>

\* the store holds for the id of the body a record with the coordinates of the
\* body in decimal-string form, the last-seen time t and the place name city
Stored(employees, b, city, t) ==
    \E i \in 1..Len(employees) :
        /\ employees[i].id = b.id.s
        /\ employees[i].latitude = numberToString(parseFloat(b.latitude).v)
        /\ employees[i].longitude = numberToString(parseFloat(b.longitude).v)
        /\ employees[i].lastSeen = toISOString(t)
        /\ employees[i].city = city

\* the records the server reads from the store after the step
LoadAfter == readEmployees(rev, file')

\* the record that the store holds for the id after the step has the name and
\* the email of the record it held for it before
KeepsNameAndEmail(id) ==
    \A i \in 1..Len(Record(Load, id)), j \in 1..Len(Record(LoadAfter, id)) :
        /\ Record(LoadAfter, id)[j].name = Record(Load, id)[i].name
        /\ Record(LoadAfter, id)[j].email = Record(Load, id)[i].email

\* C4: when update-location answers success, the store then holds for the id a
\* record with the submitted coordinates in decimal-string form, the time of the
\* update as last-seen, the city of the response as place name, and the name and
\* email the record had before the update.
C4_UpdateStored ==
    [][ (Responded /\ last'.op = "update" /\ last'.status = 200 /\ last'.success)
        => /\ Stored(LoadAfter, last'.req, last'.city, now)
           /\ KeepsNameAndEmail(last'.req.id.s) ]_vars

---------------------------------------------------------------------------
(* C5 *)

\* C5: of two geocode lookups for the same bucket key within one TTL window, in
\* any interleaving of the requests that issue them, at most one goes upstream:
\* no two upstream calls for one key begin less than a TTL apart.
C5_OneUpstreamCall ==
    \A l1, l2 \in lookups :
        (l1.n # l2.n /\ l1.key = l2.key) =>
            (l1.start - l2.start >= CACHE_TTL \/ l2.start - l1.start >= CACHE_TTL)

---------------------------------------------------------------------------
(* C6 *)

\* the bucket key of the coordinates of a body
KeyOf(b) == getCacheKey(parseFloat(b.latitude).v, parseFloat(b.longitude).v)

\* the cache has an entry for the key whose age is strictly under the TTL
Fresh(key) == key \in DOMAIN cityCache /\ now - cityCache[key].timestamp < CACHE_TTL

---------------------------------------------------------------------------
(* C7 *)

\* C7: after a lookup whose upstream call failed, the cache holds "Unknown" for
\* its key, and for a TTL from that lookup every lookup for the key is served
\* "Unknown" from the cache: the key keeps a fresh entry "Unknown".
C7_FailureCached ==
    \A f \in lookups :
        (f.state = "failed" /\ now - f.start < CACHE_TTL) =>
            (Fresh(f.key) /\ cityCache[f.key].city = Unknown)

---------------------------------------------------------------------------
(* C8 *)

\* C8: when the upstream call of an update-location request fails, and the id
\* is one the handler finds (revision 2 looks it up after the call; revision 1
\* found it before the call), the request answers success with city "Unknown"
\* and the store then holds the record with the submitted coordinates, the time
\* of the update as last-seen and "Unknown" as place name; a failed call is
\* never answered with an error other than the 404 of an id that is not found.
\* The disk takes the write.
C8_FailureDegrades ==
    [][ (Answered /\ last'.geo = "failed")
        => /\ last'.status \in {200, 404}
           /\ last'.status = 404 => (rev = 2 /\ ~Known(last'.req.id))
           /\ last'.status = 200
              => /\ last'.success /\ last'.city = Unknown
                 /\ Stored(LoadAfter, last'.req, Unknown, now) ]_vars

\* an update for the known id a was answered success with "Unknown" after its
\* upstream call failed
C8_Witness ==
    /\ last.op = "update" /\ last.geo = "failed"
    /\ last.status = 200 /\ last.success /\ last.city = Unknown
    /\ last.req.id = Str(IdA)
    /\ Stored(Load, last.req, Unknown, now)

---------------------------------------------------------------------------
(* C9 *)

\* the store holds for the id a record that shares no location
Cleared(employees, id) ==
    \E i \in 1..Len(employees) :
        /\ employees[i].id = id
        /\ employees[i].latitude = Empty /\ employees[i].longitude = Empty
        /\ employees[i].city = Unknown /\ employees[i].lastSeen = Empty

\* C9: stop-sharing for an id of the store answers success and leaves its record
\* with empty coordinates, place name "Unknown" and empty last-seen, and with
\* the id, name and email it had; a second stop-sharing for the id answers
\* success too and leaves the store as the first left it.
C9_StopIdempotent ==
    [][ (Immediate /\ last'.op = "stop" /\ HasId(last'.req) /\ Known(last'.req.id))
        => /\ last'.status = 200 /\ last'.success
           /\ Cleared(LoadAfter, last'.req.id.s)
           /\ KeepsNameAndEmail(last'.req.id.s)
           /\ stopSharing(rev, file', last'.req.id, TRUE).success
           /\ stopSharing(rev, file', last'.req.id, TRUE).file = file' ]_vars

---------------------------------------------------------------------------
(* C10 *)

\* C10: stop-sharing for an id that is not the id of any record of the store
\* answers success and leaves the store as it was.
C10_StopUnknown ==
    [][ (Immediate /\ last'.op = "stop" /\ HasId(last'.req) /\ ~Known(last'.req.id))
        => (last'.status = 200 /\ last'.success /\ file' = file) ]_vars

\* stop-sharing for the unknown id c was answered success, the store holding
\* records
C10_Witness ==
    /\ last.op = "stop" /\ last.status = 200 /\ last.success
    /\ last.req.id = Str(IdC) /\ ~Known(Str(IdC)) /\ Len(Load) >= 2

---------------------------------------------------------------------------
(* C11 *)

\* C11: create-employee with an id that belongs to a record of the store
\* answers success: false and leaves the store as it was, so the record is
\* neither duplicated nor altered, its location fields included.
C11_DuplicateRejected ==
    [][ (Immediate /\ last'.op = "create" /\ HasId(last'.req) /\ Known(last'.req.id))
        => (~last'.success /\ file' = file /\ LoadAfter = Load) ]_vars

\* create-employee for the id a was refused while a was sharing its location
C11_Witness ==
    /\ last.op = "create" /\ ~last.success /\ last.message = "ID already exists"
    /\ last.req.id = Str(IdA)
    /\ \E i \in 1..Len(Load) :
          Load[i].id = IdA /\ Load[i].latitude # Empty /\ Load[i].lastSeen # Empty

---------------------------------------------------------------------------
(* C12 *)

\* C12: no request deletes a record: every id that the store holds before a
\* step is an id that the store holds after it.
C12_NoDeletion ==
    [][ \A i \in 1..Len(Load) :
            \E j \in 1..Len(LoadAfter) : LoadAfter[j].id = Load[i].id ]_vars

---------------------------------------------------------------------------
(* C13 *)

\* the records of employees other than those with the id
Others(employees, id) == SelectSeq(employees, LAMBDA emp : emp.id # id)

\* C13: two update-location requests that overlap can interleave their
\* read-modify-write cycles so that the later write discards the change of the
\* earlier one although both were answered success.  Revision 1 reads the store
\* when the request comes in and writes, after the upstream call, the records
\* it read then with its own record replaced, whatever was written in between,
\* and answers success; revision 2 reads the store in the step in which it
\* writes.
C13_StaleWrite ==
    [][ /\ (Suspended /\ rev = 1) => Entering.employees = Load
        /\ (Answered /\ rev = 1)
           => /\ last'.status = 200 /\ last'.success
              /\ Others(LoadAfter, Leaving.req.id.s)
                 = Others(readEmployees(1, csvText(1, Leaving.employees)),
                          Leaving.req.id.s)
        /\ (Answered /\ rev = 2 /\ last'.status = 200)
           => Others(LoadAfter, Leaving.req.id.s)
              = Others(readEmployees(2, csvText(2, Load)), Leaving.req.id.s) ]_vars

\* revision 1: the updates for a and for b were both answered success, the one
\* for b last, and the store holds no location for a
C13_Witness ==
    /\ rev = 1 /\ pending = {} /\ last.op = "update" /\ last.status = 200
    /\ last.req.id = Str(IdB)
    /\ \E l1, l2 \in lookups :
          l1.id = IdA /\ l2.id = IdB /\ l1.state # "wait" /\ l2.state # "wait"
    /\ \E i \in 1..Len(Load) : Load[i].id = IdA /\ Load[i].latitude = Empty
    /\ \E i \in 1..Len(Load) : Load[i].id = IdB /\ Load[i].latitude # Empty

---------------------------------------------------------------------------
(* C14 *)

\* the messages of the responses sent when writeEmployees returned false
WriteFailed == {"Failed to update location", "Write failed", "Failed to save employee"}

\* C14: a mutating request whose store write fails is answered with status 500
\* and never with a success response.
C14_WriteFailure500 ==
    [][ (Responded /\ last'.message \in WriteFailed)
        => (last'.status = 500 /\ ~last'.success) ]_vars

---------------------------------------------------------------------------
(* C15 *)

\* the records of a sequence, as a set
Records(employees) == {employees[i] : i \in 1..Len(employees)}

\* C15: records whose fields hold no newline, written by writeEmployees and read
\* back by readEmployees, are the records that were written, field by field:
\* here for the records that the store holds.
C15_RoundTrip == Records(readEmployees(rev, csvText(rev, Load))) = Records(Load)

---------------------------------------------------------------------------
(* C16 *)

\* the store holds for the id a record with coordinates whose last-seen is the
\* current time: a record seen less than 10 minutes ago
ActivelyShared(id) ==
    \E i \in 1..Len(Load) :
        /\ Load[i].id = id.s
        /\ Load[i].lastSeen = toISOString(now)
        /\ Load[i].latitude # Empty /\ Load[i].longitude # Empty

\* the step answers a valid update-location request whose record is actively
\* shared when the handler answers
GuardCase ==
    /\ Responded /\ last'.op = "update"
    /\ HasId(last'.req) /\ ValidCoordinates(last'.req)
    /\ ActivelyShared(last'.req.id)

\* C16: an update-location request for a record that has a last-seen less than
\* 10 minutes old and coordinates is rejected with 409 and leaves the store as
\* it was.
C16_ConflictRejected == [][ GuardCase => (last'.status = 409 /\ file' = file) ]_vars

\* C16 as amended: there is no conflict guard; no response has status 409, and
\* an update-location request for an actively shared record is answered success
\* and its coordinates, place name and last-seen are stored.
C16_NoConflictGuard ==
    [][ /\ Responded => last'.status # 409
        /\ GuardCase => /\ last'.status = 200 /\ last'.success
                        /\ Stored(LoadAfter, last'.req, last'.city, now) ]_vars

\* an update for a was answered success while the store held a location for a
\* stored at the same time by an earlier update
C16_Witness ==
    /\ last.op = "update" /\ last.geo = "hit" /\ last.status = 200
    /\ last.req.id = Str(IdA) /\ ActivelyShared(Str(IdA))
    /\ \E l \in lookups : l.id = IdA /\ l.state # "wait" /\ l.start = now

---------------------------------------------------------------------------
(* C17 *)

\* the secret that password.txt holds for a password: the password itself in
\* revision 1, its hash in revision 2
Secret(password) == IF rev = 1 THEN password ELSE <<HASHMARK>> \o password

\* username and password of a /login body are those of the one line
\* username:secret of password.txt
Matches(b) ==
    /\ passwordFile # Missing
    /\ b.username # Absent /\ b.password # Absent
    /\ trim(passwordFile) = b.username.s \o <<COLON>> \o Secret(b.password.s)

\* a /login on session s with matching credentials has answered since the
\* session was last destroyed (or since it began)
Authenticated(s) == \E b \in attempts[s] : Matches(b)

\* the step is the answer to a GET /manager
ManagerAnswers == last'.op = "manager" /\ last' # last

\* C17: GET /manager answers with the dashboard only on a session on which a
\* POST /login with the username and password of the credential file has
\* answered and which GET /logout has not destroyed since; on every other
\* session (no login, failed logins only, credential file missing or
\* malformed, logged out) it redirects to /.  The loggedIn flag is set on no
\* other session.
C17_ManagerNeedsLogin ==
    [][ /\ ManagerAnswers
           => LET s == last'.req.session
              IN  /\ Authenticated(s) \/ (last'.status = 302 /\ last'.message = "/")
                  /\ sessions[s] => (last'.status = 200 /\ last'.message = "manager.html")
        /\ \A s \in SessionIds : sessions'[s] => Authenticated(s)' ]_vars

\* the dashboard is served on one session while the other one, on which only
\* failed logins answered, is not logged in
C17_Witness ==
    /\ last.op = "manager" /\ last.message = "manager.html"
    /\ \E s \in SessionIds : s # last.req.session /\ ~sessions[s] /\ attempts[s] # {}

---------------------------------------------------------------------------
(* C18 *)

\* the comma-separated fields of a row are one more than its commas
FieldCount(row) == Cardinality({i \in 1..Len(row) : row[i] = COMMA}) + 1

\* the first field of a row: what stands before its first comma
FirstField(row) ==
    IF \E i \in 1..Len(row) : row[i] = COMMA
    THEN SubSeq(row, 1, (CHOOSE i \in 1..Len(row) :
                            row[i] = COMMA /\ \A j \in 1..(i - 1) : row[j] # COMMA) - 1)
    ELSE row

\* the id of a row, without the quotes and the blanks around it
IdOf(row) == cell(FirstField(row))

\* a row of at least 7 fields whose id is not empty
WellFormed(row) == FieldCount(row) >= 7 /\ IdOf(row) # <<>>

\* the ids of the well-formed rows, in the order of the rows
RECURSIVE WellFormedIds(_)
WellFormedIds(rows) ==
    IF rows = <<>> THEN <<>>
    ELSE (IF WellFormed(Head(rows)) THEN <<IdOf(Head(rows))>> ELSE <<>>)
             \o WellFormedIds(Tail(rows))

\* the ids of the records GET /employees answered with
AnsweredIds == [i \in 1..Len(last.employees) |-> last.employees[i].id]

---------------------------------------------------------------------------
(* C19 *)

\* the records that readEmployees finds once writeEmployees has written a list
Reread(employees) == readEmployees(rev, csvText(rev, employees))

\* the step answers a request of the kind op with success
Succeeds(op) == Responded /\ last'.op = op /\ last'.success

\* the list that the request answered by the step read from the file: revision
\* 1 of update-location read it when the request came in, every other handler
\* reads it in the step that answers
OwnRead == IF Answered /\ rev = 1 THEN Leaving.employees ELSE Load

\* C19: when a create-employee, update-location or stop-sharing request is
\* answered success, the write of the request is in the file (the new record,
\* the new location, the cleared location), also on a disk whose writes can
\* fail; and what it wrote for the other employees is the list that the same
\* request read from the file.  A request that is suspended holds the list it
\* read itself.  (A stop-sharing request for an id the store does not hold is
\* answered success without a write.)
C19_WriteThenRespond ==
    [][ /\ Succeeds("update")
           => /\ Stored(LoadAfter, last'.req, last'.city, now)
              /\ Others(LoadAfter, last'.req.id.s) = Others(Reread(OwnRead), last'.req.id.s)
        /\ Succeeds("create")
           => /\ \E j \in 1..Len(LoadAfter) : LoadAfter[j].id = cell(last'.req.id.s)
              /\ Others(LoadAfter, cell(last'.req.id.s))
                 = Others(Reread(OwnRead), cell(last'.req.id.s))
        /\ (Succeeds("stop") /\ Known(last'.req.id))
           => /\ Cleared(LoadAfter, last'.req.id.s)
              /\ Others(LoadAfter, last'.req.id.s) = Others(Reread(OwnRead), last'.req.id.s)
        /\ (Suspended /\ rev = 1) => Entering.employees = Load ]_vars

\* on a disk whose writes can fail, a create-employee request was answered
\* success and its record stands in the file after the records it read
C19_Witness ==
    /\ disk = "faulty"
    /\ last.op = "create" /\ last.success
    /\ Len(Load) = 3 /\ Load[3].id = cell(last.req.id.s)

---------------------------------------------------------------------------
(* C20 *)

\* the upstream calls that await their answer
Waiting(ls) == {l \in ls : l.state = "wait"}

\* C20: an update-location request calls upstream at most once.  A request
\* that is suspended has begun exactly one call; the step in which the call is
\* answered or fails begins no other call and answers the request, which if the
\* call failed and the answer is 200 carries the city "Unknown"; a request
\* answered at once begins no call.  So the calls are never more than the
\* requests, and every awaited call belongs to one suspended request.
C20_NoRetry ==
    [][ /\ Suspended
           => /\ Cardinality(lookups') = Cardinality(lookups) + 1
              /\ Waiting(lookups') = Waiting(lookups) \cup {l \in lookups' : l.n = Entering.n}
        /\ Answered
           => /\ Cardinality(lookups') = Cardinality(lookups)
              /\ Waiting(lookups') = Waiting(lookups) \ {l \in lookups : l.n = Leaving.n}
              /\ pending' = pending \ {Leaving}
              /\ last'.req = Leaving.req
              /\ (last'.geo = "failed" /\ last'.status = 200) => last'.city = Unknown
        /\ Immediate => lookups' = lookups
        /\ Cardinality(lookups') <= nreq'
        /\ Cardinality(Waiting(lookups')) = Cardinality(pending') ]_vars

\* two requests were answered, each after its one upstream call failed, and no
\* call is awaited
C20_Witness ==
    /\ Cardinality(lookups) = 2 /\ nreq = 2
    /\ \A l \in lookups : l.state = "failed"
    /\ pending = {}
    /\ last.op = "update" /\ last.geo = "failed" /\ last.status = 200 /\ last.city = Unknown

---------------------------------------------------------------------------
(* C21 *)

\* C21: an update-location answered success changes only the record of its id:
\* every record of another id that the store holds right before the write is
\* in the store, with the same fields, right after it.
C21_OnlyOwnRecord ==
    [][ Succeeds("update")
        => \A i \in 1..Len(Load) :
               Load[i].id # last'.req.id.s => Load[i] \in Records(LoadAfter) ]_vars

---------------------------------------------------------------------------
(* C22 *)

\* the record shares a location: coordinates and last-seen are all there
SharingShape(emp) ==
    emp.latitude # Empty /\ emp.longitude # Empty /\ emp.lastSeen # Empty

\* the record shares none: coordinates and last-seen are all empty and the
\* place name is "Unknown"
NotSharingShape(emp) ==
    /\ emp.latitude = Empty /\ emp.longitude = Empty /\ emp.lastSeen = Empty
    /\ emp.city = Unknown

\* C22: from a store whose records are all sharing or not sharing, every store
\* reached by create-employee, update-location and stop-sharing requests holds
\* only records that are sharing or not sharing: none has coordinates without
\* a last-seen time or a last-seen time without coordinates.
C22_TwoShapes ==
    \A i \in 1..Len(Load) : SharingShape(Load[i]) \/ NotSharingShape(Load[i])

---------------------------------------------------------------------------
(* C23 *)

\* the step answers an update-location request with a rejection
Rejected == Responded /\ last'.op = "update" /\ last'.status \in {400, 404}

\* C23: an update-location request that is rejected, with 400 for its input or
\* with 404 for an id the store does not hold, has made no upstream call (it is
\* answered in the step that takes it in, and no call begins in that step) and
\* leaves the geocode cache as it was.
C23_RejectedNoLookup ==
    [][ Rejected => (Immediate /\ lookups' = lookups /\ cityCache' = cityCache) ]_vars

---------------------------------------------------------------------------
(* C24 *)

\* the step answers an update-location request from the cache
Hit == Immediate /\ last'.op = "update" /\ last'.geo = "hit"

\* C24: a lookup served from the cache leaves the cache as it is, timestamps
\* included, and the entry it is served from was stored less than a TTL before
\* the lookup; a valid request that is answered without an upstream call is
\* answered from such an entry, so once the entry of a bucket is a TTL old the
\* next lookup of the bucket goes upstream, whatever hits came before.
C24_HitKeepsTimestamp ==
    [][ /\ Hit
           => /\ cityCache' = cityCache
              /\ KeyOf(last'.req) \in DOMAIN cityCache
              /\ now - cityCache[KeyOf(last'.req)].timestamp < CACHE_TTL
              /\ last'.status = 200 => last'.city = cityCache[KeyOf(last'.req)].city
        /\ (Immediate /\ last'.op = "update" /\ last'.geo # "hit")
           => last'.status \in {400, 404}
        /\ Suspended
           => \/ KeyOf(Entering.req) \notin DOMAIN cityCache
              \/ now - cityCache[KeyOf(Entering.req)].timestamp >= CACHE_TTL ]_vars

\* a request was answered from the cache some time after the entry was stored,
\* and the entry still carries the time at which the one upstream call for its
\* bucket began
C24_Witness ==
    /\ last.op = "update" /\ last.geo = "hit" /\ last.status = 200
    /\ pending = {}
    /\ Stored(Load, last.req, last.city, now)
    /\ cityCache[KeyOf(last.req)].timestamp < now
    /\ \E l \in lookups :
           /\ lookups = {l} /\ l.key = KeyOf(last.req)
           /\ cityCache[l.key].timestamp = l.start
           /\ cityCache[l.key].city = last.city

====
